---- MODULE Spec2Model ----
(***************************************************************************)
(* Model of lipstick's notification feedback dispatcher                    *)
(* (NotificationFeedbackPlayer), together with the collaborators it talks  *)
(* to: the notification store (NotificationManager), the compositor's      *)
(* topmost surface, and the non-graphic feedback client (Ngf::Client);     *)
(* and of the home application (HomeApplication): its home-ready signal    *)
(* and its compositor path.                                                *)
(*                                                                         *)
(* Strings are modelled as sequences of atoms (an atom is a piece of text  *)
(* without a comma, or the comma itself), so that splitting a hint and     *)
(* stripping a prefix are computed and not assumed.  An optional value (a  *)
(* hint that may be absent from the hint map) is a sequence of length 0 or *)
(* 1.                                                                      *)
(***************************************************************************)
EXTENDS Integers, Sequences, FiniteSets, TLC

VARIABLES
    m_notifications,    \* the store: id -> notification object, or Null
    nextId,             \* the store's id counter (ids are never reused)
    heapTop,            \* the highest address an object was ever allocated at
    m_idToEventId,      \* the dispatcher's multi hash: object address -> event ids
    m_minimumPriority,  \* the dispatcher's configured minimum priority
    topmost,            \* the compositor's topmost surface, or NoSurface
    ngfEvents,          \* the feedback client's running events
    ngfEventId,         \* the feedback client's last event id
    calls,              \* the feedback client calls issued by the last handler
    lastEvent,          \* the last handler that ran, and the id it was given
    m_homeReadySent,    \* HomeApplication: homeReady has been emitted
    frameSwappedConnections, \* connections of frameSwapped() to the home-ready slot
    homeReadyEmitted,   \* how often homeReady() was emitted
    startupNotifications, \* how often sendStartupNotifications() ran
    m_mainWindowInstance, \* the main window exists
    mainWindowVisible,  \* the main window is visible
    m_compositorPath,   \* HomeApplication: the compositor path, empty if not set
    compositorsCreated, \* how many objects setCompositorPath created
    compositorInstance, \* LipstickCompositor::instance() is not null
    lastCall            \* the last operation of the home application, and its arguments

feedbackVars == <<m_notifications, nextId, heapTop, m_idToEventId, m_minimumPriority,
                  topmost, ngfEvents, ngfEventId, calls, lastEvent>>

homeVars == <<m_homeReadySent, frameSwappedConnections, homeReadyEmitted,
              startupNotifications, m_mainWindowInstance, mainWindowVisible,
              m_compositorPath, compositorsCreated, compositorInstance, lastCall>>

vars == <<feedbackVars, homeVars>>

----------------------------------------------------------------------------
(* Bounds of the model *)

MaxIds == 2
MaxEventId == 4
MaxPriority == 3
MaxUrgency == 2
MaxModeValue == 4
MaxConnections == 3
MaxEmissions == 2

Ids == 1..MaxIds
Addrs == 1..MaxIds
(* priorities are ints a notification's hint sets: a negative one is possible *)
Priorities == -1..MaxPriority
MinimumPriorities == 0..MaxPriority
Urgencies == 0..MaxUrgency

(* enum PreviewMode *)
AllNotificationsEnabled == 0
ApplicationNotificationsDisabled == 1
SystemNotificationsDisabled == 2
AllNotificationsDisabled == 3

(* urgency >= 2 is critical *)
CriticalUrgency == 2

(* length of "file://" in atoms: soundFile.remove(0, 7) removes that prefix *)
FilePrefix == "file://"

(* a null LipstickNotification pointer, and the test for it *)
Null == [addr |-> 0]
IsNull(n) == n.addr = 0
NoSurface == [surface |-> FALSE, hasProperty |-> FALSE, numeric |-> FALSE, value |-> 0]

(* an optional value: absent, or present with value v *)
Absent == <<>>
Present(v) == <<v>>

(* QVariantHash::value(key, default) followed by a conversion *)
HintValue(h, default) == IF h = Absent THEN default ELSE h[1]

----------------------------------------------------------------------------
(* The topmost surface and its window properties *)

(* a surface declaring the property with the number v *)
SurfaceDeclaring(v) == [surface |-> TRUE, hasProperty |-> TRUE, numeric |-> TRUE, value |-> v]

(* no topmost surface; one without the property; one whose property is a   *)
(* number; one whose property is no number                                 *)
Surfaces ==
    {NoSurface}
    \cup {[surface |-> TRUE, hasProperty |-> FALSE, numeric |-> FALSE, value |-> 0]}
    \cup {SurfaceDeclaring(v) : v \in 0..MaxModeValue}
    \cup {[surface |-> TRUE, hasProperty |-> TRUE, numeric |-> FALSE, value |-> 0]}

(* QVariant::toUInt(): 0 for a value that is no number *)
ToUInt(s) == IF s.numeric THEN s.value ELSE 0

(* uint mode = AllNotificationsEnabled; if (surface != 0) mode = property or default *)
SurfaceMode(s) ==
    IF s.surface
    THEN IF s.hasProperty THEN ToUInt(s) ELSE AllNotificationsEnabled
    ELSE AllNotificationsEnabled

----------------------------------------------------------------------------
(* The policy: NotificationFeedbackPlayer::isEnabled *)

NotificationIsCritical(n) ==
    n.urgency >= CriticalUrgency \/ HintValue(n.hints.displayOn, FALSE)

(* a variant that lets criticality pass the priority gate only *)
IsEnabled_CriticalOnlyPassesPriority(n, minimumPriority, s) ==
    IF n.hidden \/ n.restored
    THEN FALSE
    ELSE LET mode == SurfaceMode(s)
         IN  (n.priority >= minimumPriority \/ NotificationIsCritical(n))
             /\ (mode = AllNotificationsEnabled
                 \/ (mode = SystemNotificationsDisabled /\ n.urgency < CriticalUrgency))

(* a variant that forgets restored notifications *)
IsEnabled_IgnoresRestored(n, minimumPriority, s) ==
    IF n.hidden
    THEN FALSE
    ELSE LET mode == SurfaceMode(s)
         IN  (n.priority >= minimumPriority \/ NotificationIsCritical(n))
             /\ (mode = AllNotificationsEnabled
                 \/ (mode = ApplicationNotificationsDisabled /\ NotificationIsCritical(n))
                 \/ (mode = SystemNotificationsDisabled /\ n.urgency < CriticalUrgency))

IsEnabled(n, minimumPriority, s) ==
    IF n.hidden \/ n.restored
    THEN FALSE
    ELSE LET mode == SurfaceMode(s)
             urgency == n.urgency
             priority == n.priority
             notificationIsCritical == NotificationIsCritical(n)
         IN  (priority >= minimumPriority \/ notificationIsCritical)
             /\ (mode = AllNotificationsEnabled
                 \/ (mode = ApplicationNotificationsDisabled /\ notificationIsCritical)
                 \/ (mode = SystemNotificationsDisabled /\ urgency < CriticalUrgency))

----------------------------------------------------------------------------
(* The feedback client (Ngf::Client), as the dispatcher sees it.  The      *)
(* dispatcher's mutable state is threaded through the handlers as a record *)
(* d = [map, events, eventId, calls].                                      *)

(* QMap<QString, QVariant>(): no property set *)
NoProperties ==
    [leds |-> Absent, audio |-> Absent, vibra |-> Absent,
     filename |-> Absent, enabled |-> Absent]

StopIdCall(h) == [call |-> "stopId", id |-> h, name |-> <<>>, props |-> NoProperties]
StopNameCall(name) == [call |-> "stopName", id |-> 0, name |-> name, props |-> NoProperties]
PlayCall(h, name, props) == [call |-> "play", id |-> h, name |-> name, props |-> props]

(* m_ngfClient->stop(uint): stops the event with that id *)
NgfStopId(d, h) ==
    [d EXCEPT !.events = {e \in @ : e.id # h},
              !.calls = Append(@, StopIdCall(h))]

(* m_ngfClient->stop(const QString &): stops every event running under that name *)
NgfStopName(d, name) ==
    [d EXCEPT !.events = {e \in @ : e.name # name},
              !.calls = Append(@, StopNameCall(name))]

(* m_ngfClient->play(name, properties): starts an event and returns its new id *)
NgfPlay(d, name, props) ==
    [d EXCEPT !.eventId = @ + 1,
              !.events = @ \cup {[id |-> d.eventId + 1, name |-> name]},
              !.calls = Append(@, PlayCall(d.eventId + 1, name, props))]

----------------------------------------------------------------------------
(* The dispatcher's helpers *)

(* QMultiHash::insert(key, value): the newest value of a key is iterated first *)
MapInsert(d, key, h) == [d EXCEPT !.map[key] = <<h>> \o @]

(* it = find(key); while (it != end && it.key() == key) { stop(it.value()); it = erase(it); } *)
RECURSIVE StopAndErase(_, _)
StopAndErase(d, key) ==
    IF d.map[key] = <<>>
    THEN d
    ELSE StopAndErase(NgfStopId([d EXCEPT !.map[key] = Tail(@)], Head(d.map[key])), key)

(* the loop of addNotification that stops the feedback the notification generated before *)
StopPreviousFeedback(d, key) == StopAndErase(d, key)

(* a variant of the loop of removeNotification that stops the handles but keeps the entries *)
StopRemovedFeedback_KeepsBindings(d, key) ==
    [StopAndErase(d, key) EXCEPT !.map[key] = d.map[key]]

(* the loop of removeNotification *)
StopRemovedFeedback(d, key) == StopAndErase(d, key)

(* QString::split(",", QString::SkipEmptyParts) *)
RECURSIVE SplitFrom(_, _, _)
SplitFrom(s, part, items) ==
    IF s = <<>>
    THEN IF part = <<>> THEN items ELSE Append(items, part)
    ELSE IF Head(s) = ","
         THEN SplitFrom(Tail(s), <<>>, IF part = <<>> THEN items ELSE Append(items, part))
         ELSE SplitFrom(Tail(s), Append(part, Head(s)), items)

(* a variant of the split that keeps the empty parts *)
RECURSIVE SplitAllFrom(_, _, _)
SplitAllFrom(s, part, items) ==
    IF s = <<>>
    THEN Append(items, part)
    ELSE IF Head(s) = ","
         THEN SplitAllFrom(Tail(s), <<>>, Append(items, part))
         ELSE SplitAllFrom(Tail(s), Append(part, Head(s)), items)

FeedbackItems_KeepEmptyParts(n) == SplitAllFrom(HintValue(n.hints.feedback, <<>>), <<>>, <<>>)

FeedbackItems(n) == SplitFrom(HintValue(n.hints.feedback, <<>>), <<>>, <<>>)

(* a variant that leaves the sound file name as the hint gives it *)
StripFilePrefix_KeepsPrefix(soundFile) == soundFile

(* soundFile.startsWith("file://") ? soundFile.remove(0, 7) : soundFile *)
StripFilePrefix(soundFile) ==
    IF soundFile # <<>> /\ Head(soundFile) = FilePrefix THEN Tail(soundFile) ELSE soundFile

(* the properties addNotification computes for the feedback items *)
FeedbackProperties(n) ==
    LET soundFile == HintValue(n.hints.soundFile, <<>>)
    IN  [leds |-> IF HintValue(n.hints.ledDisabled, TRUE) /\ n.body = <<>> /\ n.summary = <<>>
                  THEN Present(FALSE) ELSE Absent,
         audio |-> IF HintValue(n.hints.suppressSound, FALSE) THEN Present(FALSE) ELSE Absent,
         vibra |-> IF HintValue(n.hints.originPackage, <<>>) # <<>> THEN Present(FALSE) ELSE Absent,
         filename |-> IF soundFile # <<>> THEN Present(StripFilePrefix(soundFile)) ELSE Absent,
         enabled |-> IF soundFile # <<>> THEN Present(TRUE) ELSE Absent]

(* a variant of the loop that starts each item without stopping its name first *)
RECURSIVE PlayItems_WithoutStop(_, _, _, _)
PlayItems_WithoutStop(d, key, items, props) ==
    IF items = <<>>
    THEN d
    ELSE LET played == NgfPlay(d, Head(items), props)
         IN  PlayItems_WithoutStop(MapInsert(played, key, played.eventId), key,
                                   Tail(items), props)

(* foreach (item, feedbackItems) { stop(item); insert(notification, play(item, properties)); } *)
RECURSIVE PlayItems(_, _, _, _)
PlayItems(d, key, items, props) ==
    IF items = <<>>
    THEN d
    ELSE LET stopped == NgfStopName(d, Head(items))
             played == NgfPlay(stopped, Head(items), props)
         IN  PlayItems(MapInsert(played, key, played.eventId), key, Tail(items), props)

(* a variant that checks the feedback items against the initial minimum priority *)
PlayFeedback_IgnoresMinimumPriority(d, n, minimumPriority, s) ==
    LET feedbackItems == FeedbackItems(n)
    IN  IF IsEnabled(n, 0, s) /\ feedbackItems # <<>>
        THEN PlayItems(d, n.addr, feedbackItems, FeedbackProperties(n))
        ELSE d

(* if (isEnabled(notification, m_minimumPriority) && !feedbackItems.isEmpty()) { ... } *)
PlayFeedback(d, n, minimumPriority, s) ==
    LET feedbackItems == FeedbackItems(n)
    IN  IF IsEnabled(n, minimumPriority, s) /\ feedbackItems # <<>>
        THEN PlayItems(d, n.addr, feedbackItems, FeedbackProperties(n))
        ELSE d

VibraName == <<"vibra">>

(* if (isEnabled(notification, 0) && HINT_VIBRA) { stop("vibra"); insert(notification, play("vibra", {})); } *)
PlayVibra(d, n, s) ==
    IF IsEnabled(n, 0, s) /\ HintValue(n.hints.vibra, FALSE)
    THEN LET stopped == NgfStopName(d, VibraName)
             played == NgfPlay(stopped, VibraName, NoProperties)
         IN  MapInsert(played, n.addr, played.eventId)
    ELSE d

(* a variant without the loop that stops the previous feedback *)
AddNotificationTo_KeepsPrevious(d, n, minimumPriority, s) ==
    IF ~IsNull(n) /\ ~n.hasProgress
    THEN PlayVibra(PlayFeedback(d, n, minimumPriority, s), n, s)
    ELSE d

(* a variant that plays feedback on progress updates too *)
AddNotificationTo_OnProgressToo(d, n, minimumPriority, s) ==
    IF ~IsNull(n)
    THEN PlayVibra(PlayFeedback(StopPreviousFeedback(d, n.addr), n, minimumPriority, s), n, s)
    ELSE d

(* a variant that starts the new feedback before it stops the previous one *)
AddNotificationTo_StartThenStop(d, n, minimumPriority, s) ==
    IF ~IsNull(n) /\ ~n.hasProgress
    THEN LET old == d.map[n.addr]
             started == PlayVibra(PlayFeedback([d EXCEPT !.map[n.addr] = <<>>],
                                               n, minimumPriority, s), n, s)
             new == started.map[n.addr]
             stopped == StopAndErase([started EXCEPT !.map[n.addr] = old], n.addr)
         IN  [stopped EXCEPT !.map[n.addr] = new]
    ELSE d

(* NotificationFeedbackPlayer::addNotification, given the result of the store lookup *)
AddNotificationTo(d, n, minimumPriority, s) ==
    IF ~IsNull(n) /\ ~n.hasProgress
    THEN PlayVibra(PlayFeedback(StopPreviousFeedback(d, n.addr), n, minimumPriority, s), n, s)
    ELSE d

(* a variant that stops all feedback when the notification is not found *)
RECURSIVE StopAllFrom(_, _)
StopAllFrom(d, a) ==
    IF a = 0 THEN d ELSE StopAllFrom(StopAndErase(d, a), a - 1)

(* a variant that stops the feedback of every notification *)
RemoveNotificationFrom_StopsAll(d, n) == StopAllFrom(d, MaxIds)

RemoveNotificationFrom_StopsAllOnMiss(d, n) ==
    IF ~IsNull(n) THEN StopAndErase(d, n.addr) ELSE StopAllFrom(d, MaxIds)

(* NotificationFeedbackPlayer::removeNotification, given the result of the store lookup *)
RemoveNotificationFrom(d, n) ==
    IF ~IsNull(n) THEN StopRemovedFeedback(d, n.addr) ELSE d

----------------------------------------------------------------------------
(* The home application's handlers, over its state h (home-ready) and c   *)
(* (compositor)                                                           *)

(* a variant that emits homeReady without recording that it was sent *)
SendHomeReadySignalIfNotAlreadySentTo_WithoutFlag(h, instance) ==
    IF ~h.homeReadySent
    THEN [h EXCEPT !.connections = IF instance THEN 0 ELSE @,
                   !.homeReady = @ + 1,
                   !.startup = @ + 1]
    ELSE h

(* HomeApplication::sendHomeReadySignalIfNotAlreadySent: disconnect()     *)
(* removes every connection of frameSwapped() to the slot (none if the    *)
(* compositor instance is null); homeReady() is connected to              *)
(* sendStartupNotifications() by the constructor                          *)
SendHomeReadySignalIfNotAlreadySentTo(h, instance) ==
    IF ~h.homeReadySent
    THEN [h EXCEPT !.homeReadySent = TRUE,
                   !.connections = IF instance THEN 0 ELSE @,
                   !.homeReady = @ + 1,
                   !.startup = @ + 1]
    ELSE h

(* HomeApplication::connectFrameSwappedSignal: connect() adds one more    *)
(* connection each time, and none if the compositor instance is null      *)
ConnectFrameSwappedSignalTo(h, visible, instance) ==
    IF ~h.homeReadySent /\ visible
    THEN [h EXCEPT !.connections = IF instance THEN @ + 1 ELSE @]
    ELSE h

(* frameSwapped() is delivered to the connections that existed when it    *)
(* was emitted, one after the other, skipping those disconnected since    *)
RECURSIVE DeliverFrameSwapped(_, _)
DeliverFrameSwapped(h, remaining) ==
    IF remaining = 0 \/ h.connections = 0
    THEN h
    ELSE DeliverFrameSwapped(SendHomeReadySignalIfNotAlreadySentTo(h, TRUE), remaining - 1)

(* what loading and creating the compositor component may result in: the  *)
(* component has errors; beginCreate returns null; it returns an object   *)
(* that is no LipstickCompositor; it returns the compositor               *)
Outcomes == {"loadError", "createFailed", "object", "compositor"}

(* a variant without the check that a compositor path is already set *)
SetCompositorPathTo_Overwrites(c, path, outcome) ==
    IF path = <<>>
    THEN c
    ELSE LET stored == [c EXCEPT !.path = path]
         IN  CASE outcome = "loadError" -> stored
               [] outcome = "createFailed" -> stored
               [] outcome = "object" -> [stored EXCEPT !.created = @ + 1]
               [] outcome = "compositor" ->
                      [stored EXCEPT !.created = @ + 1, !.instance = TRUE]

(* HomeApplication::setCompositorPath *)
SetCompositorPathTo(c, path, outcome) ==
    IF path = <<>>
    THEN c
    ELSE IF c.path # <<>>
         THEN c
         ELSE LET stored == [c EXCEPT !.path = path]
              IN  CASE outcome = "loadError" -> stored
                    [] outcome = "createFailed" -> stored
                    [] outcome = "object" -> [stored EXCEPT !.created = @ + 1]
                    [] outcome = "compositor" ->
                           [stored EXCEPT !.created = @ + 1, !.instance = TRUE]

----------------------------------------------------------------------------
(* Notifications the events carry *)

DefaultHints ==
    [feedback |-> Absent, soundFile |-> Absent, suppressSound |-> Absent,
     vibra |-> Absent, ledDisabled |-> Absent, originPackage |-> Absent,
     displayOn |-> Absent]

Notification(hidden, restored, hasProgress, urgency, priority, displayOn, feedback, vibra) ==
    [addr |-> 0, hidden |-> hidden, restored |-> restored, hasProgress |-> hasProgress,
     urgency |-> urgency, priority |-> priority,
     summary |-> <<"summary">>, body |-> <<"body">>,
     hints |-> [DefaultHints EXCEPT !.displayOn = displayOn, !.feedback = feedback,
                                    !.vibra = vibra]]

(* the feedback hints of the lifecycle specification: none, "led" and "sound,led" *)
LifecycleFeedback ==
    {Absent, Present(<<"led">>), Present(<<"sound", ",", "led">>)}

(* notifications of the lifecycle specification: only the feedback hint varies *)
LifecycleNotifications ==
    {Notification(FALSE, FALSE, FALSE, 1, 1, Absent, f, Absent) : f \in LifecycleFeedback}

(* the minimum priorities that get configured *)
ConfiguredPriorities == {0, MaxPriority}

(* notifications of the policy specification: every policy input varies *)
PolicyNotifications ==
    {Notification(h, r, FALSE, u, p, o, Present(<<"sound">>), v) :
        h \in BOOLEAN, r \in BOOLEAN, u \in Urgencies, p \in Priorities,
        o \in {Absent, Present(TRUE)}, v \in {Absent, Present(TRUE)}}

(* the feedback hints of the update specification: absent, empty, only    *)
(* commas, one item, two items, an item twice, and the item "vibra"       *)
UpdateFeedback ==
    {Absent, Present(<<>>), Present(<<",">>), Present(<<"led">>),
     Present(<<"sound", ",", "led">>), Present(<<"led", ",", "led">>),
     Present(<<",", "vibra", ",">>)}

(* notifications of the update specification: the feedback requested varies *)
UpdateNotifications ==
    {Notification(h, FALSE, p, 1, 1, Absent, f, v) :
        h \in BOOLEAN, p \in BOOLEAN, f \in UpdateFeedback,
        v \in {Absent, Present(FALSE), Present(TRUE)}}

(* feedback hints that yield no item (absent, empty, only commas), and one *)
(* that yields an item                                                    *)
SilentFeedback ==
    {Absent, Present(<<>>), Present(<<",">>), Present(<<",", ",">>), Present(<<"led">>)}

SoundFiles == {Absent, Present(<<FilePrefix, "ring.wav">>)}

(* notifications of the silent specification: any urgency, priority and   *)
(* display-on hint, a feedback hint with or without items, any vibrate    *)
(* hint, with or without a sound file                                     *)
SilentNotifications ==
    {[Notification(FALSE, FALSE, FALSE, u, p, c, f, v) EXCEPT !.hints.soundFile = sf] :
        u \in Urgencies, p \in Priorities, c \in {Absent, Present(TRUE)},
        f \in SilentFeedback, v \in {Absent, Present(FALSE), Present(TRUE)},
        sf \in SoundFiles}

(* the topmost surfaces of the silent specification: none, or one that    *)
(* declares one of the four modes                                         *)
ModeSurfaces ==
    {NoSurface} \cup {SurfaceDeclaring(v) : v \in AllNotificationsEnabled..AllNotificationsDisabled}

(* notifications of the parameter specification: every hint and text the *)
(* feedback parameters are computed from varies                          *)
ParameterSoundFiles ==
    {Absent, Present(<<>>), Present(<<"ring.wav">>), Present(<<FilePrefix>>),
     Present(<<FilePrefix, "ring.wav">>), Present(<<"ring.wav", FilePrefix>>)}

ParameterNotifications ==
    {[Notification(FALSE, FALSE, FALSE, 1, 1, Absent, f, v)
         EXCEPT !.body = b, !.summary = sm, !.hints.ledDisabled = l,
                !.hints.suppressSound = ss, !.hints.originPackage = o,
                !.hints.soundFile = sf] :
        f \in {Present(<<"led">>), Present(<<"sound", ",", "led">>)},
        v \in {Absent, Present(TRUE)},
        b \in {<<>>, <<"body">>}, sm \in {<<>>, <<"summary">>},
        l \in {Absent, Present(FALSE), Present(TRUE)},
        ss \in {Absent, Present(FALSE), Present(TRUE)},
        o \in {Absent, Present(<<>>), Present(<<"package">>)},
        sf \in ParameterSoundFiles}

(* notifications of the configuration specification: any urgency and     *)
(* priority, with or without the vibrate hint                            *)
ConfigurationNotifications ==
    {Notification(FALSE, FALSE, FALSE, u, p, Absent, Present(<<"sound">>), v) :
        u \in Urgencies, p \in Priorities, v \in {Absent, Present(TRUE)}}

----------------------------------------------------------------------------
(* The state machine *)

(* NotificationManager::notification(id): the object, or a null pointer *)
Lookup(store, id) == IF id \in DOMAIN store THEN store[id] ELSE Null

(* the addresses of the live notification objects *)
LiveAddrs(store) == {store[i].addr : i \in {j \in DOMAIN store : ~IsNull(store[j])}}

Dispatcher ==
    [map |-> m_idToEventId, events |-> ngfEvents, eventId |-> ngfEventId, calls |-> <<>>]

(* the handler's effect on the dispatcher and on the feedback client *)
Commit(d, op, id) ==
    /\ d.eventId <= MaxEventId
    /\ m_idToEventId' = d.map
    /\ ngfEvents' = d.events
    /\ ngfEventId' = d.eventId
    /\ calls' = d.calls
    /\ lastEvent' = [op |-> op, id |-> id]
    /\ UNCHANGED homeVars

EmptyStore == [i \in Ids |-> Null]

(* the paths setCompositorPath is called with, besides the empty one *)
CompositorPaths == {<<"compositor.qml">>, <<"other.qml">>}

NoCall == [op |-> "none", path |-> <<>>, outcome |-> "none", visible |-> FALSE]

(* HomeApplication::HomeApplication *)
InitHomeApplication ==
    /\ m_homeReadySent = FALSE
    /\ frameSwappedConnections = 0
    /\ homeReadyEmitted = 0
    /\ startupNotifications = 0
    /\ m_mainWindowInstance = FALSE
    /\ mainWindowVisible = FALSE
    /\ m_compositorPath = <<>>
    /\ compositorsCreated = 0
    /\ compositorInstance = FALSE
    /\ lastCall = NoCall

InitDispatcher ==
    /\ m_idToEventId = [a \in Addrs |-> <<>>]
    /\ ngfEvents = {}
    /\ ngfEventId = 0
    /\ calls = <<>>
    /\ lastEvent = [op |-> "none", id |-> 0]

Init ==
    /\ m_notifications = EmptyStore
    /\ nextId = 1
    /\ heapTop = 0
    /\ m_minimumPriority = 0
    /\ topmost = NoSurface
    /\ InitDispatcher
    /\ InitHomeApplication

(* the slot addNotification(id), called with any id *)
AddNotification(id) ==
    /\ Commit(AddNotificationTo(Dispatcher, Lookup(m_notifications, id),
                                m_minimumPriority, topmost), "add", id)
    /\ UNCHANGED <<m_notifications, nextId, heapTop, m_minimumPriority, topmost>>

(* the slot removeNotification(id), called with any id *)
RemoveNotification(id) ==
    /\ Commit(RemoveNotificationFrom(Dispatcher, Lookup(m_notifications, id)), "remove", id)
    /\ UNCHANGED <<m_notifications, nextId, heapTop, m_minimumPriority, topmost>>

(* a new notification is posted: the store creates it under a fresh id, at *)
(* an address a freed object had or at the next address never used before, *)
(* and the dispatcher is told                                              *)
Publish(n, a) ==
    /\ nextId <= MaxIds
    /\ a <= heapTop + 1
    /\ a \notin LiveAddrs(m_notifications)
    /\ heapTop' = IF a > heapTop THEN a ELSE heapTop
    /\ m_notifications' = [m_notifications EXCEPT ![nextId] = [n EXCEPT !.addr = a]]
    /\ nextId' = nextId + 1
    /\ Commit(AddNotificationTo(Dispatcher, Lookup(m_notifications', nextId),
                                m_minimumPriority, topmost), "add", nextId)
    /\ UNCHANGED <<m_minimumPriority, topmost>>

(* a live notification is updated in place (same id, same object), and the *)
(* dispatcher is told                                                      *)
Update(id, n) ==
    /\ ~IsNull(m_notifications[id])
    /\ m_notifications' = [m_notifications EXCEPT ![id] = [n EXCEPT !.addr = m_notifications[id].addr]]
    /\ Commit(AddNotificationTo(Dispatcher, Lookup(m_notifications', id),
                                m_minimumPriority, topmost), "add", id)
    /\ UNCHANGED <<nextId, heapTop, m_minimumPriority, topmost>>

(* a live notification is closed: the store drops it, then emits           *)
(* notificationRemoved(id), which runs the slot removeNotification(id)     *)
Close(id) ==
    /\ ~IsNull(m_notifications[id])
    /\ m_notifications' = [m_notifications EXCEPT ![id] = Null]
    /\ Commit(RemoveNotificationFrom(Dispatcher, Lookup(m_notifications', id)), "remove", id)
    /\ UNCHANGED <<nextId, heapTop, m_minimumPriority, topmost>>

(* NotificationFeedbackPlayer::setMinimumPriority *)
SetMinimumPriority(minimumPriority) ==
    /\ m_minimumPriority' = minimumPriority
    /\ calls' = <<>>
    /\ lastEvent' = [op |-> "setMinimumPriority", id |-> 0]
    /\ UNCHANGED <<m_notifications, nextId, heapTop, topmost, m_idToEventId, ngfEvents, ngfEventId>>
    /\ UNCHANGED homeVars

(* another surface becomes topmost, or the topmost surface changes its property *)
SetTopmost(s) ==
    /\ topmost' = s
    /\ calls' = <<>>
    /\ lastEvent' = [op |-> "setTopmost", id |-> 0]
    /\ UNCHANGED <<m_notifications, nextId, heapTop, m_minimumPriority, m_idToEventId, ngfEvents, ngfEventId>>
    /\ UNCHANGED homeVars

Next ==
    \/ \E n \in LifecycleNotifications, a \in Addrs : Publish(n, a)
    \/ \E id \in Ids, n \in LifecycleNotifications : Update(id, n)
    \/ \E id \in Ids : Close(id)
    \/ \E id \in Ids : AddNotification(id)
    \/ \E id \in Ids : RemoveNotification(id)

Spec == Init /\ [][Next]_vars

(* The policy specification: one live notification with any policy inputs, *)
(* under any minimum priority and any topmost surface                      *)
InitPolicy ==
    /\ \E n \in PolicyNotifications :
          m_notifications = [EmptyStore EXCEPT ![1] = [n EXCEPT !.addr = 1]]
    /\ nextId = 2
    /\ heapTop = 1
    /\ m_minimumPriority \in ConfiguredPriorities
    /\ topmost \in Surfaces
    /\ InitDispatcher
    /\ InitHomeApplication

NextPolicy ==
    \/ \E h \in BOOLEAN, r \in BOOLEAN :
          Update(1, [m_notifications[1] EXCEPT !.hidden = h, !.restored = r])
    \/ \E id \in Ids : AddNotification(id)
    \/ \E id \in Ids : RemoveNotification(id)
    \/ \E p \in ConfiguredPriorities : SetMinimumPriority(p)
    \/ \E s \in Surfaces : SetTopmost(s)

SpecPolicy == InitPolicy /\ [][NextPolicy]_vars

(* The update specification: one live notification that is updated again   *)
(* and again with any feedback request                                     *)
InitUpdate ==
    /\ \E n \in UpdateNotifications :
          m_notifications = [EmptyStore EXCEPT ![1] = [n EXCEPT !.addr = 1]]
    /\ nextId = 2
    /\ heapTop = 1
    /\ m_minimumPriority = 0
    /\ topmost = NoSurface
    /\ InitDispatcher
    /\ InitHomeApplication

NextUpdate ==
    \/ \E n \in UpdateNotifications : Update(1, n)
    \/ AddNotification(1)
    \/ RemoveNotification(1)
    \/ \E p \in ConfiguredPriorities : SetMinimumPriority(p)

SpecUpdate == InitUpdate /\ [][NextUpdate]_vars

(* The silent specification: one live notification with any policy inputs *)
(* whose feedback hint is replaced again and again, under any minimum     *)
(* priority and mode                                                      *)
InitSilent ==
    /\ \E n \in SilentNotifications :
          m_notifications = [EmptyStore EXCEPT ![1] = [n EXCEPT !.addr = 1]]
    /\ nextId = 2
    /\ heapTop = 1
    /\ m_minimumPriority \in ConfiguredPriorities
    /\ topmost \in ModeSurfaces
    /\ InitDispatcher
    /\ InitHomeApplication

NextSilent ==
    \/ \E f \in SilentFeedback :
          Update(1, [m_notifications[1] EXCEPT !.hints.feedback = f])
    \/ AddNotification(1)
    \/ RemoveNotification(1)

SpecSilent == InitSilent /\ [][NextSilent]_vars

(* The parameter specification: one live notification with any texts and   *)
(* hints, added and removed under a minimum priority that lets it pass or  *)
(* not                                                                     *)
InitParameters ==
    /\ \E n \in ParameterNotifications :
          m_notifications = [EmptyStore EXCEPT ![1] = [n EXCEPT !.addr = 1]]
    /\ nextId = 2
    /\ heapTop = 1
    /\ m_minimumPriority \in ConfiguredPriorities
    /\ topmost = NoSurface
    /\ InitDispatcher
    /\ InitHomeApplication

NextParameters ==
    \/ AddNotification(1)
    \/ RemoveNotification(1)

SpecParameters == InitParameters /\ [][NextParameters]_vars

(* The configuration specification: a freshly constructed dispatcher and   *)
(* one live notification; the minimum priority and the topmost surface     *)
(* change between the notification's events                                *)
InitConfiguration ==
    /\ \E n \in ConfigurationNotifications :
          m_notifications = [EmptyStore EXCEPT ![1] = [n EXCEPT !.addr = 1]]
    /\ nextId = 2
    /\ heapTop = 1
    /\ m_minimumPriority = 0
    /\ topmost = NoSurface
    /\ InitDispatcher
    /\ InitHomeApplication

NextConfiguration ==
    \/ \E p \in MinimumPriorities : SetMinimumPriority(p)
    \/ \E s \in Surfaces : SetTopmost(s)
    \/ AddNotification(1)
    \/ RemoveNotification(1)

SpecConfiguration == InitConfiguration /\ [][NextConfiguration]_vars

(* The home application *)

HomeReady ==
    [homeReadySent |-> m_homeReadySent, connections |-> frameSwappedConnections,
     homeReady |-> homeReadyEmitted, startup |-> startupNotifications]

Compositor ==
    [path |-> m_compositorPath, created |-> compositorsCreated,
     instance |-> compositorInstance]

CommitHomeReady(h) ==
    /\ h.connections <= MaxConnections
    /\ h.homeReady <= MaxEmissions
    /\ m_homeReadySent' = h.homeReadySent
    /\ frameSwappedConnections' = h.connections
    /\ homeReadyEmitted' = h.homeReady
    /\ startupNotifications' = h.startup

(* HomeApplication::mainWindowInstance: the first call creates the window *)
(* and connects its visibleChanged(bool) to connectFrameSwappedSignal     *)
MainWindowInstance ==
    /\ m_mainWindowInstance' = TRUE
    /\ lastCall' = [NoCall EXCEPT !.op = "mainWindowInstance"]
    /\ UNCHANGED <<m_homeReadySent, frameSwappedConnections, homeReadyEmitted,
                   startupNotifications, mainWindowVisible, m_compositorPath,
                   compositorsCreated, compositorInstance>>
    /\ UNCHANGED feedbackVars

(* the main window is shown or hidden: visibleChanged(visible) runs       *)
(* connectFrameSwappedSignal(visible)                                     *)
VisibleChanged(visible) ==
    /\ m_mainWindowInstance
    /\ visible # mainWindowVisible
    /\ mainWindowVisible' = visible
    /\ CommitHomeReady(ConnectFrameSwappedSignalTo(HomeReady, visible, compositorInstance))
    /\ lastCall' = [NoCall EXCEPT !.op = "visibleChanged", !.visible = visible]
    /\ UNCHANGED <<m_mainWindowInstance, m_compositorPath, compositorsCreated,
                   compositorInstance>>
    /\ UNCHANGED feedbackVars

(* the compositor emits frameSwapped() *)
FrameSwapped ==
    /\ compositorInstance
    /\ CommitHomeReady(DeliverFrameSwapped(HomeReady, frameSwappedConnections))
    /\ lastCall' = [NoCall EXCEPT !.op = "frameSwapped"]
    /\ UNCHANGED <<m_mainWindowInstance, mainWindowVisible, m_compositorPath,
                   compositorsCreated, compositorInstance>>
    /\ UNCHANGED feedbackVars

(* HomeApplication::setCompositorPath(path), with what loading the        *)
(* component would result in                                              *)
SetCompositorPath(path, outcome) ==
    /\ LET c == SetCompositorPathTo(Compositor, path, outcome)
       IN  /\ m_compositorPath' = c.path
           /\ compositorsCreated' = c.created
           /\ compositorInstance' = c.instance
    /\ lastCall' = [NoCall EXCEPT !.op = "setCompositorPath", !.path = path,
                                  !.outcome = outcome]
    /\ UNCHANGED <<m_homeReadySent, frameSwappedConnections, homeReadyEmitted,
                   startupNotifications, m_mainWindowInstance, mainWindowVisible>>
    /\ UNCHANGED feedbackVars

NextHome ==
    \/ MainWindowInstance
    \/ \E visible \in BOOLEAN : VisibleChanged(visible)
    \/ FrameSwapped
    \/ \E path \in {<<>>} \cup CompositorPaths, outcome \in Outcomes :
          SetCompositorPath(path, outcome)

SpecHome == Init /\ [][NextHome]_vars

----------------------------------------------------------------------------
(* What the properties below read off a handler's calls *)

Range(seq) == {seq[i] : i \in 1..Len(seq)}
Reverse(seq) == [i \in 1..Len(seq) |-> seq[Len(seq) + 1 - i]]

IsPlay(c) == c.call = "play"
IsStopId(c) == c.call = "stopId"
PlayCalls(cs) == SelectSeq(cs, IsPlay)
StopIdCalls(cs) == SelectSeq(cs, IsStopId)
CallIds(cs) == [i \in 1..Len(cs) |-> cs[i].id]
StopIdCallsFor(handles) == [i \in 1..Len(handles) |-> StopIdCall(handles[i])]

(* the last handler was addNotification(id) / removeNotification(id) *)
Added(e, id) == e.op = "add" /\ e.id = id
Removed(e, id) == e.op = "remove" /\ e.id = id

(* the policy as the specification words it, over the four defined modes *)
DefinedModes ==
    {AllNotificationsEnabled, ApplicationNotificationsDisabled,
     SystemNotificationsDisabled, AllNotificationsDisabled}
DeclaresDefinedMode(s) == s.surface /\ s.hasProperty /\ s.numeric /\ s.value \in DefinedModes
DeclaresNoValidMode(s) == ~DeclaresDefinedMode(s)
StatedMode(s) == IF DeclaresDefinedMode(s) THEN s.value ELSE AllNotificationsEnabled
StatedCritical(n) == n.urgency >= 2 \/ n.hints.displayOn = Present(TRUE)
StatedPermits(mode, n) ==
    CASE mode = AllNotificationsEnabled -> TRUE
      [] mode = ApplicationNotificationsDisabled -> StatedCritical(n)
      [] mode = SystemNotificationsDisabled -> n.urgency < 2
      [] mode = AllNotificationsDisabled -> FALSE
StatedEnabled(n, minimumPriority, mode) ==
    (n.priority >= minimumPriority \/ StatedCritical(n)) /\ StatedPermits(mode, n)

(* the last handler started an effect of that name *)
Started(name) == \E i \in 1..Len(calls) : IsPlay(calls[i]) /\ calls[i].name = name

(* the last handler started a bare "vibra" effect and bound it under key *)
VibraStartedAndBound(key) ==
    \E i \in 1..Len(calls) :
        /\ calls[i] = PlayCall(calls[i].id, VibraName, NoProperties)
        /\ calls[i].id \in Range(m_idToEventId[key])

----------------------------------------------------------------------------
(* C1: removal clears all bindings.  A remove event for a notification    *)
(* that holds N >= 0 bindings issues exactly N stop(handle) calls, one    *)
(* per bound handle, and leaves no binding for it; also when the store    *)
(* has dropped the notification before removeNotification runs.           *)
C1_RemovalClearsAllBindings ==
    [][\A id \in Ids :
         (Removed(lastEvent', id) /\ ~IsNull(m_notifications[id]))
         => LET key == m_notifications[id].addr
            IN  /\ calls' = StopIdCallsFor(m_idToEventId[key])
                /\ m_idToEventId'[key] = <<>>]_vars

(* C2 as stated: after any add/update event for a notification, its       *)
(* bindings are exactly the handles that event started, and none that an  *)
(* earlier event started.                                                 *)
C2_BindingsOfAnyLastUpdate ==
    [][\A id \in Ids :
         (Added(lastEvent', id) /\ ~IsNull(m_notifications'[id]))
         => LET key == m_notifications'[id].addr
            IN  /\ m_idToEventId'[key] = Reverse(CallIds(PlayCalls(calls')))
                /\ \A h \in Range(m_idToEventId'[key]) : h > ngfEventId]_vars

(* C2 amended: after any add/update event for a notification that does    *)
(* not report progress, its bindings are exactly the handles that event   *)
(* started (one per started feedback item, plus the vibration override's  *)
(* if started), and none that an earlier event started.                   *)
C2_BindingsOfLastUpdate ==
    [][\A id \in Ids :
         (Added(lastEvent', id) /\ ~IsNull(m_notifications'[id])
            /\ ~m_notifications'[id].hasProgress)
         => LET key == m_notifications'[id].addr
            IN  /\ m_idToEventId'[key] = Reverse(CallIds(PlayCalls(calls')))
                /\ \A h \in Range(m_idToEventId'[key]) : h > ngfEventId]_vars

(* an update replaced a generation of two handles by another of three *)
C2_Witness ==
    /\ Added(lastEvent, 1)
    /\ ~m_notifications[1].hasProgress
    /\ Len(StopIdCalls(calls)) = 1
    /\ Len(m_idToEventId[1]) = 3

(* C3: no orphaned bindings.  Every handle in the binding map is bound to *)
(* a notification that is still in the store.                             *)
C3_NoOrphanedBindings ==
    \A a \in Addrs : m_idToEventId[a] # <<>> => a \in LiveAddrs(m_notifications)

(* C4: for a notification neither hidden nor restored, under each of the  *)
(* four modes (or no declared mode), isEnabled is true iff (priority >=   *)
(* minimumPriority or critical) and the mode permits; and an add starts   *)
(* the ambient feedback exactly then.                                     *)
C4_IsEnabledPolicy ==
    \A id \in Ids :
        LET n == m_notifications[id]
        IN  (~IsNull(n) /\ ~n.hidden /\ ~n.restored)
            => /\ \A mp \in MinimumPriorities, s \in Surfaces :
                    (DeclaresDefinedMode(s) \/ ~s.surface \/ ~s.hasProperty)
                    => (IsEnabled(n, mp, s) <=> StatedEnabled(n, mp, StatedMode(s)))
               /\ (Added(lastEvent, id)
                     /\ (DeclaresDefinedMode(topmost) \/ ~topmost.surface \/ ~topmost.hasProperty))
                  => (Started(<<"sound">>)
                        <=> StatedEnabled(n, m_minimumPriority, StatedMode(topmost)))

(* a critical notification of priority 0 got its feedback under           *)
(* app-notifications-disabled and minimum priority 3                       *)
C4_Witness ==
    /\ Added(lastEvent, 1)
    /\ m_notifications[1].priority = 0
    /\ m_notifications[1].urgency = 2
    /\ ~m_notifications[1].hidden /\ ~m_notifications[1].restored
    /\ m_minimumPriority = 3
    /\ topmost = SurfaceDeclaring(ApplicationNotificationsDisabled)
    /\ Started(<<"sound">>)

(* C5: for a hidden or restored notification isEnabled is false whatever  *)
(* the priority, urgency, hint, minimum priority and surface; an          *)
(* add/update of it only stops and erases its previous bindings.          *)
C5_HiddenRestoredSuppressed ==
    [][\A id \in Ids :
         (Added(lastEvent', id) /\ ~IsNull(m_notifications'[id])
            /\ (m_notifications'[id].hidden \/ m_notifications'[id].restored))
         => LET n == m_notifications'[id]
            IN  /\ \A mp \in MinimumPriorities, s \in Surfaces : ~IsEnabled(n, mp, s)
                /\ calls' = StopIdCallsFor(m_idToEventId[n.addr])
                /\ m_idToEventId'[n.addr] = <<>>]_vars

(* an update that restored a critical notification stopped its two effects *)
C5_Witness ==
    /\ Added(lastEvent, 1)
    /\ m_notifications[1].restored /\ ~m_notifications[1].hidden
    /\ m_notifications[1].urgency = 2
    /\ Len(calls) = 2
    /\ m_idToEventId[1] = <<>>

(* C6: vibration bypass.  An add of a non-progress notification, neither  *)
(* hidden nor restored, with the vibrate hint and a priority below the    *)
(* minimum priority, starts and binds "vibra" iff the mode permits the    *)
(* notification.                                                          *)
C6_VibrationBypass ==
    \A id \in Ids :
        LET n == m_notifications[id]
        IN  (~IsNull(n) /\ Added(lastEvent, id) /\ ~n.hasProgress
               /\ ~n.hidden /\ ~n.restored
               /\ n.hints.vibra = Present(TRUE)
               /\ n.priority < m_minimumPriority
               /\ DeclaresDefinedMode(topmost))
            => (VibraStartedAndBound(n.addr) <=> StatedPermits(topmost.value, n))

(* C7: progress exclusion.  An add/update event for a notification that   *)
(* reports progress issues no call and changes no binding.                *)
C7_ProgressExclusion ==
    [][\A id \in Ids :
         (Added(lastEvent', id) /\ ~IsNull(m_notifications'[id])
            /\ m_notifications'[id].hasProgress)
         => /\ calls' = <<>>
            /\ m_idToEventId' = m_idToEventId
            /\ ngfEvents' = ngfEvents
            /\ ngfEventId' = ngfEventId]_vars

(* a progress update left the two bindings of the notification in place *)
C7_Witness ==
    /\ Added(lastEvent, 1)
    /\ m_notifications[1].hasProgress
    /\ m_notifications[1].hints.vibra = Present(TRUE)
    /\ Len(m_idToEventId[1]) = 2
    /\ calls = <<>>

(* C8: stop-then-start.  The calls of one add/update event are the        *)
(* stop(handle) of every previous binding, then stop(name), start(name)   *)
(* pairs; no previous binding stays bound.                                *)
C8_StopThenStart ==
    [][\A id \in Ids :
         (Added(lastEvent', id) /\ ~IsNull(m_notifications'[id])
            /\ ~m_notifications'[id].hasProgress)
         => LET key == m_notifications'[id].addr
                old == m_idToEventId[key]
                cs == calls'
            IN  /\ Len(cs) >= Len(old)
                /\ SubSeq(cs, 1, Len(old)) = StopIdCallsFor(old)
                /\ \A i \in (Len(old) + 1)..Len(cs) :
                      \/ /\ IsPlay(cs[i])
                         /\ i > Len(old) + 1
                         /\ cs[i - 1] = StopNameCall(cs[i].name)
                      \/ /\ cs[i].call = "stopName"
                         /\ i < Len(cs)
                         /\ IsPlay(cs[i + 1])
                /\ Range(old) \cap Range(m_idToEventId'[key]) = {}]_vars

(* an update stopped two previous bindings and then started two effects *)
C8_Witness ==
    /\ Added(lastEvent, 1)
    /\ Len(calls) = 6
    /\ IsStopId(calls[1]) /\ IsStopId(calls[2])
    /\ IsPlay(calls[4]) /\ IsPlay(calls[6])

(* C9: a surface that declares no valid mode (no topmost window, no       *)
(* property, or a value that is none of the four modes) never restricts   *)
(* feedback: the policy decides as under all-enabled.                     *)
C9_InvalidModeIsAllEnabled ==
    \A id \in Ids :
        LET n == m_notifications[id]
        IN  (~IsNull(n) /\ Added(lastEvent, id) /\ ~n.hidden /\ ~n.restored
               /\ DeclaresNoValidMode(topmost))
            => /\ \A mp \in MinimumPriorities :
                    IsEnabled(n, mp, topmost)
                      <=> StatedEnabled(n, mp, AllNotificationsEnabled)
               /\ Started(<<"sound">>)
                    <=> StatedEnabled(n, m_minimumPriority, AllNotificationsEnabled)

(* C10: lookup-miss is a silent no-op.  An add/update or remove event     *)
(* whose id the store does not hold issues no call and changes no binding. *)
C10_LookupMissIsNoOp ==
    [][\A id \in Ids :
         ((Added(lastEvent', id) \/ Removed(lastEvent', id)) /\ IsNull(m_notifications'[id]))
         => /\ calls' = <<>>
            /\ m_idToEventId' = m_idToEventId
            /\ ngfEvents' = ngfEvents
            /\ ngfEventId' = ngfEventId]_vars

(* removeNotification missed its notification while bindings existed *)
C10_Witness ==
    /\ lastEvent.op = "remove"
    /\ IsNull(m_notifications[lastEvent.id])
    /\ \E a \in Addrs : m_idToEventId[a] # <<>>
    /\ calls = <<>>

----------------------------------------------------------------------------
(* handles of the effects the feedback service is playing, and the handles  *)
(* the binding map holds under any key                                      *)
RunningIds(events) == {e.id : e \in events}
BoundHandles(map) == UNION {Range(map[a]) : a \in Addrs}

(* the handler whose calls are cs started handle h *)
StartedIn(cs, h) == \E j \in 1..Len(cs) : IsPlay(cs[j]) /\ cs[j].id = h

(* the handler whose calls are cs issued stop(effectName) for the name of   *)
(* handle h, which was playing before the handler (in events) or was        *)
(* started earlier by the same handler                                      *)
StoppedByNameIn(cs, events, h) ==
    \E i \in 1..Len(cs) :
        \/ \E e \in events : e.id = h /\ cs[i] = StopNameCall(e.name)
        \/ \E j \in 1..(i - 1) :
              IsPlay(cs[j]) /\ cs[j].id = h /\ cs[i] = StopNameCall(cs[j].name)

(* C11 as stated: every handle held in the binding map refers to an effect  *)
(* that is in flight: started by the dispatcher and stopped by no later     *)
(* stop(handle) or stop(effectName), issued for any notification.           *)
C11_BoundHandlesAreInFlight ==
    \A h \in BoundHandles(m_idToEventId) : h \in RunningIds(ngfEvents)

(* C11 amended: every handle held in the binding map was started by the     *)
(* dispatcher and has not been passed to stop(handle); it is in flight      *)
(* unless a stop(effectName) for its own effect name, issued later by the   *)
(* same or another add/update event, has stopped it.                        *)
C11_BoundHandlesStoppedOnlyByName ==
    [][\A h \in BoundHandles(m_idToEventId') :
         /\ h \in 1..ngfEventId'
         /\ h \in BoundHandles(m_idToEventId) \/ StartedIn(calls', h)
         /\ StopIdCall(h) \notin Range(calls')
         /\ (h \notin RunningIds(ngfEvents')
               /\ (h \in RunningIds(ngfEvents) \/ StartedIn(calls', h)))
            => StoppedByNameIn(calls', ngfEvents, h)]_vars

(* an add for one notification stopped, by name, the effect another one     *)
(* still holds bound                                                        *)
C11_Witness ==
    /\ \E id \in Ids : Added(lastEvent, id)
    /\ \E h \in BoundHandles(m_idToEventId) :
          /\ h \notin RunningIds(ngfEvents)
          /\ ~StartedIn(calls, h)
          /\ \E i \in 1..Len(calls), j \in 1..Len(calls) :
                i < j /\ IsPlay(calls[j]) /\ calls[i] = StopNameCall(calls[j].name)
    /\ \E a \in Addrs, b \in Addrs :
          a # b /\ m_idToEventId[a] # <<>> /\ m_idToEventId[b] # <<>>

----------------------------------------------------------------------------
(* handle h, bound under key a before the step, is cancelled by the step:   *)
(* erased from the bindings of a or passed to stop(handle)                  *)
Cancelled(a, h) ==
    /\ h \in Range(m_idToEventId[a])
    /\ h \notin Range(m_idToEventId'[a]) \/ StopIdCall(h) \in Range(calls')

(* C12 as stated: removing a notification is the only cancellation path:    *)
(* a bound handle is stopped and erased only by processing the remove       *)
(* event of the notification it is bound to, by no other event.             *)
C12_OnlyRemovalCancels ==
    [][\A a \in Addrs : \A h \in Range(m_idToEventId[a]) :
         Cancelled(a, h)
         => \E id \in Ids :
               /\ Removed(lastEvent', id)
               /\ ~IsNull(m_notifications[id])
               /\ m_notifications[id].addr = a]_vars

(* C12 amended: a bound handle is stopped by handle and erased only by      *)
(* processing a remove event, or an add/update event that reports no        *)
(* progress, of the notification whose object is the key the handle is      *)
(* bound under; such an event both stops and erases it, and no other event  *)
(* and no timeout does either.                                              *)
C12_OnlyOwnEventsCancel ==
    [][\A a \in Addrs : \A h \in Range(m_idToEventId[a]) :
         Cancelled(a, h)
         => /\ h \notin Range(m_idToEventId'[a])
            /\ StopIdCall(h) \in Range(calls')
            /\ \E id \in Ids :
                  /\ ~IsNull(m_notifications'[id])
                  /\ m_notifications'[id].addr = a
                  /\ \/ Removed(lastEvent', id)
                     \/ Added(lastEvent', id) /\ ~m_notifications'[id].hasProgress]_vars

(* an update of a notification has stopped and erased the handle its        *)
(* previous add had bound, and bound a new one                              *)
C12_Witness ==
    \E id \in Ids :
        /\ Added(lastEvent, id)
        /\ ~IsNull(m_notifications[id])
        /\ Len(StopIdCalls(calls)) = 1
        /\ Len(PlayCalls(calls)) = 1
        /\ \A h \in Range(CallIds(StopIdCalls(calls))) :
              h \notin Range(m_idToEventId[m_notifications[id].addr])
        /\ m_idToEventId[m_notifications[id].addr] # <<>>

----------------------------------------------------------------------------
(* C13: the feedback service plays at most one effect per effect name at    *)
(* any time, across all notifications.                                      *)
C13_OneEffectPerName ==
    \A e1 \in ngfEvents : \A e2 \in ngfEvents : e1.name = e2.name => e1.id = e2.id

(* a second notification has started "led" while the first still holds its  *)
(* own "led" handle bound: only the newer effect is playing                 *)
C13_Witness ==
    \E id \in Ids :
        /\ Added(lastEvent, id)
        /\ ~IsNull(m_notifications[id])
        /\ Started(<<"led">>)
        /\ \E e \in ngfEvents :
              e.name = <<"led">> /\ e.id \in Range(m_idToEventId[m_notifications[id].addr])
        /\ \E b \in Addrs :
              /\ b # m_notifications[id].addr
              /\ \E h \in Range(m_idToEventId[b]) : h \notin RunningIds(ngfEvents)

----------------------------------------------------------------------------
(* the step publishes notification id: the store did not hold it before *)
NewlyPublished(id) == IsNull(m_notifications[id]) /\ ~IsNull(m_notifications'[id])

(* the step erases none of the bindings under key a and passes none of    *)
(* them to stop(handle)                                                    *)
BindingsKept(a) ==
    \A h \in Range(m_idToEventId[a]) :
        h \in Range(m_idToEventId'[a]) /\ StopIdCall(h) \notin Range(calls')

(* the step keeps the bindings under key a and inserts none *)
BindingsUntouched(a) == BindingsKept(a) /\ m_idToEventId'[a] = m_idToEventId[a]

(* C16: an add/update or remove event for notification A erases and        *)
(* inserts bindings only under A: the bindings of every other notification *)
(* B stay as they are and no stop(handle) is issued for a handle bound to  *)
(* B.  The handles bound before A was published are bound to other         *)
(* notifications, in the store or closed.                                  *)
C16_OtherBindingsUntouched ==
    [][\A id \in Ids :
         (Added(lastEvent', id) \/ Removed(lastEvent', id))
         => /\ \A b \in Ids \ {id} :
                  ~IsNull(m_notifications[b]) => BindingsUntouched(m_notifications[b].addr)
            /\ NewlyPublished(id) => \A a \in Addrs : BindingsKept(a)]_vars

----------------------------------------------------------------------------
(* the feedback hint yields no item: it is absent, empty or only commas *)
YieldsNoItem(feedback) ==
    feedback = Absent \/ \A i \in 1..Len(feedback[1]) : feedback[1][i] = ","

(* C14: an add/update of a notification whose feedback hint yields no     *)
(* item and whose vibrate hint is absent or false starts no effect and    *)
(* records no binding, for every priority, urgency and mode, and with or  *)
(* without a sound-file hint.                                             *)
C14_NoTagsNoVibrateNoFeedback ==
    [][\A id \in Ids :
         (Added(lastEvent', id) /\ ~IsNull(m_notifications'[id])
            /\ YieldsNoItem(m_notifications'[id].hints.feedback)
            /\ m_notifications'[id].hints.vibra # Present(TRUE))
         => LET key == m_notifications'[id].addr
            IN  /\ PlayCalls(calls') = <<>>
                /\ ngfEventId' = ngfEventId
                /\ Range(m_idToEventId'[key]) \subseteq Range(m_idToEventId[key])]_vars

(* an update to a feedback hint of commas only, with a sound file, under  *)
(* a policy that enables the notification, has stopped the effect bound   *)
(* before and started none                                                *)
C14_Witness ==
    /\ Added(lastEvent, 1)
    /\ m_notifications[1].hints.feedback = Present(<<",", ",">>)
    /\ m_notifications[1].hints.soundFile # Absent
    /\ m_notifications[1].hints.vibra = Present(FALSE)
    /\ IsEnabled(m_notifications[1], m_minimumPriority, topmost)
    /\ Len(StopIdCalls(calls)) = 1
    /\ PlayCalls(calls) = <<>>
    /\ m_idToEventId[1] = <<>>

----------------------------------------------------------------------------
(* the parameter set as the specification words it *)
HintIsNonEmpty(h) == h # Absent /\ h[1] # <<>>
WithoutLeadingPrefix(name) ==
    IF Len(name) >= 1 /\ name[1] = "file://" THEN SubSeq(name, 2, Len(name)) ELSE name
StatedProperties(n) ==
    [leds |-> IF n.body = <<>> /\ n.summary = <<>> /\ n.hints.ledDisabled # Present(FALSE)
              THEN Present(FALSE) ELSE Absent,
     audio |-> IF n.hints.suppressSound = Present(TRUE) THEN Present(FALSE) ELSE Absent,
     vibra |-> IF HintIsNonEmpty(n.hints.originPackage) THEN Present(FALSE) ELSE Absent,
     filename |-> IF HintIsNonEmpty(n.hints.soundFile)
                  THEN Present(WithoutLeadingPrefix(n.hints.soundFile[1])) ELSE Absent,
     enabled |-> IF HintIsNonEmpty(n.hints.soundFile) THEN Present(TRUE) ELSE Absent]

(* C15: when the ambient check passes and the item list is not empty,     *)
(* every item of the add is started with one and the same parameter set:  *)
(* LED disabled iff body and summary are both empty and the               *)
(* LED-suppression hint is not explicitly false; audio disabled iff the   *)
(* suppress-sound hint is set; vibration disabled iff the origin-package  *)
(* tag is non-empty; the sound file name without a leading file:// and    *)
(* sound-enabled = true iff the sound-file hint is non-empty.  The        *)
(* vibration override is always started with an empty parameter set.      *)
C15_ParameterSet ==
    [][(Added(lastEvent', 1) /\ ~IsNull(m_notifications'[1]))
       => LET n == m_notifications'[1]
              plays == PlayCalls(calls')
              items == SelectSeq(plays, LAMBDA c : c.name # VibraName)
          IN  /\ \A i \in 1..Len(plays) :
                    plays[i].props = IF plays[i].name = VibraName
                                     THEN NoProperties
                                     ELSE StatedProperties(n)
              /\ IsEnabled(n, m_minimumPriority, topmost)
                 => [i \in 1..Len(items) |-> items[i].name] = FeedbackItems(n)
              /\ n.hints.vibra = Present(TRUE) => Started(VibraName)']_vars

(* an add has started two items with the same parameter set, LEDs off     *)
(* and the sound file name stripped of file://, and the vibration         *)
(* override with no parameter                                             *)
C15_Witness ==
    /\ Added(lastEvent, 1)
    /\ m_notifications[1].hints.soundFile = Present(<<"file://", "ring.wav">>)
    /\ m_notifications[1].hints.ledDisabled = Absent
    /\ Len(PlayCalls(calls)) = 3
    /\ PlayCalls(calls)[1].props = PlayCalls(calls)[2].props
    /\ PlayCalls(calls)[1].props.leds = Present(FALSE)
    /\ PlayCalls(calls)[1].props.audio = Present(FALSE)
    /\ PlayCalls(calls)[1].props.vibra = Present(FALSE)
    /\ PlayCalls(calls)[1].props.filename = Present(<<"ring.wav">>)
    /\ PlayCalls(calls)[1].props.enabled = Present(TRUE)
    /\ PlayCalls(calls)[3] = PlayCall(PlayCalls(calls)[3].id, VibraName, NoProperties)

----------------------------------------------------------------------------
(* the last step was a configuration change *)
ConfigurationChanged(e) == e.op \in {"setMinimumPriority", "setTopmost"}

(* C17: a change of the topmost surface or of its property, and           *)
(* setMinimumPriority, issue no start or stop call and leave the binding  *)
(* map unchanged; they affect only later add/update events, which use the *)
(* mode and the minimum priority current at that moment.  The minimum     *)
(* priority is 0 until it is first set.                                   *)
C17_ConfigurationAffectsLaterEventsOnly ==
    [][/\ ConfigurationChanged(lastEvent')
          => /\ calls' = <<>>
             /\ m_idToEventId' = m_idToEventId
             /\ ngfEvents' = ngfEvents
             /\ ngfEventId' = ngfEventId
       /\ lastEvent.op = "none" => m_minimumPriority = 0
       /\ m_minimumPriority' # m_minimumPriority => lastEvent'.op = "setMinimumPriority"
       /\ (Added(lastEvent', 1) /\ ~IsNull(m_notifications'[1])
             /\ (DeclaresDefinedMode(topmost') \/ ~topmost'.surface \/ ~topmost'.hasProperty))
          => LET n == m_notifications'[1]
             IN  /\ m_minimumPriority' = m_minimumPriority /\ topmost' = topmost
                 /\ Started(<<"sound">>)'
                    <=> StatedEnabled(n, m_minimumPriority, StatedMode(topmost))]_vars

(* after a first add that played the item, the minimum priority was       *)
(* raised and a surface appeared; the next add stopped the item and,      *)
(* being below the new minimum, started none                              *)
C17_Witness ==
    /\ Added(lastEvent, 1)
    /\ m_minimumPriority = MaxPriority
    /\ topmost = SurfaceDeclaring(AllNotificationsEnabled)
    /\ m_notifications[1].priority = 1
    /\ m_notifications[1].urgency = 1
    /\ Len(StopIdCalls(calls)) = 1
    /\ PlayCalls(calls) = <<>>

----------------------------------------------------------------------------
(* C18: homeReady is emitted at most once over any sequence of main-window *)
(* visibility changes and frameSwapped events: on the first frameSwapped   *)
(* delivered while the handler is connected.  From then on                 *)
(* m_homeReadySent stays true, and no later visibility change reconnects   *)
(* the handler.                                                            *)
C18_HomeReadyAtMostOnce ==
    [][/\ homeReadyEmitted' # homeReadyEmitted
          => /\ lastCall'.op = "frameSwapped"
             /\ ~m_homeReadySent /\ frameSwappedConnections > 0
             /\ homeReadyEmitted = 0 /\ homeReadyEmitted' = 1
       /\ (lastCall'.op = "frameSwapped" /\ ~m_homeReadySent /\ frameSwappedConnections > 0)
          => m_homeReadySent' /\ homeReadyEmitted' = 1
       /\ startupNotifications' = homeReadyEmitted'
       /\ m_homeReadySent
          => /\ m_homeReadySent'
             /\ homeReadyEmitted = 1
             /\ frameSwappedConnections = 0 /\ frameSwappedConnections' = 0]_vars

(* homeReady was emitted once, and the main window has become visible      *)
(* again since without the handler being connected anew                    *)
C18_Witness ==
    /\ m_homeReadySent
    /\ homeReadyEmitted = 1
    /\ lastCall.op = "visibleChanged"
    /\ lastCall.visible
    /\ compositorInstance
    /\ frameSwappedConnections = 0

(* C19: setCompositorPath with an empty path leaves the stored path        *)
(* unchanged; a non-empty path is stored when none is stored yet, also     *)
(* when loading the component from it fails; and once a non-empty path is  *)
(* stored, every later call, with any argument, leaves the stored path     *)
(* unchanged and creates no compositor.                                    *)
C19_CompositorPathSetOnce ==
    [][/\ lastCall'.op = "setCompositorPath"
          => /\ lastCall'.path = <<>>
                => /\ m_compositorPath' = m_compositorPath
                   /\ compositorsCreated' = compositorsCreated
             /\ m_compositorPath # <<>>
                => /\ m_compositorPath' = m_compositorPath
                   /\ compositorsCreated' = compositorsCreated
                   /\ compositorInstance' = compositorInstance
             /\ (m_compositorPath = <<>> /\ lastCall'.path # <<>>)
                => m_compositorPath' = lastCall'.path
       /\ m_compositorPath' # m_compositorPath => lastCall'.op = "setCompositorPath"]_vars

(* the first path was stored although loading from it failed, and a later  *)
(* call with another path that would have loaded has changed nothing       *)
C19_Witness ==
    /\ lastCall.op = "setCompositorPath"
    /\ lastCall.path # <<>>
    /\ lastCall.path # m_compositorPath
    /\ lastCall.outcome = "compositor"
    /\ m_compositorPath # <<>>
    /\ compositorsCreated = 0
    /\ ~compositorInstance

====
